---- MODULE Spec2Model ----
(***************************************************************************)
(* Model of the RTIC application in src/src/main.rs: the event-dispatch    *)
(* core of a LoRaWAN end device (priority-2 software tasks lorawan_event   *)
(* and lorawan_response, the priority-3 software task set_timer and the    *)
(* priority-4 interrupt handlers timer_irq and radio_irq), the Option cell *)
(* `lorawan` holding the protocol state machine, the task message queues   *)
(* and the LPTIM1 timer.                                                   *)
(***************************************************************************)
EXTENDS Naturals, Sequences, FiniteSets

(* ----------------------------- bounds --------------------------------- *)
\* largest TimeoutRequest duration (ticks) the stub transition returns
MaxMs == 3
\* largest number of MAC-command options in a downlink header
MaxFOpts == 3
\* largest frame counter carried by DownlinkReceived / UplinkSending
MaxFCnt == 1

(* ------------------------- program constants --------------------------- *)
\* u16::MAX, the widest value of set_timer's argument `ms: u16`
U16Max == 65535
\* message-queue capacity of every software task (no `capacity` argument)
Capacity == 1

VARIABLES
    lorawan,      \* resource `lorawan`: "Some" or "None" (the Option cell)
    evPc,         \* position of the running lorawan_event invocation
    evEvent,      \* its argument `event`
    evHeld,       \* its local binding `lorawan` owns the device
    evResp,       \* its local `response`
    respPc,       \* position of the running lorawan_response invocation
    respArg,      \* its argument `response`
    respHeld,     \* its local binding `lorawan` owns the device
    foptsLeft,    \* options the `for mac_command in fopts` loop has yet to visit
    macLen,       \* local `mac_commands_len`
    frmOk,        \* whether downlink.frm_payload() decoded (Ok(FRMPayload::Data(_)))
    rq2,          \* ready queue of the priority-2 dispatcher (task names)
    evSlot,       \* message buffer of lorawan_event (capacity 1)
    respSlot,     \* message buffer of lorawan_response (capacity 1)
    rq3,          \* ready queue of the priority-3 dispatcher: set_timer arguments
    cnt,          \* LPTIM1 counter register CNT
    arr,          \* LPTIM1 programmed count
    running,      \* LPTIM1 single-shot countdown in progress
    irqPending,   \* LPTIM1 compare-match flag (interrupt LPTIM1 pending)
    radioPending, \* interrupt RADIO_IRQ_BUSY pending
    rngen,        \* RNG peripheral clock enabled in RCC
    panicked,     \* "none", or the task whose unwrap() panicked
    dropped,      \* observer: lorawan_event found the cell empty and dropped its event
    timeoutOwed,  \* observer: timer_irq ran and its TimeoutFired has not reached handle_event
    respDone,     \* observer: kind of the result whose lorawan_response invocation returned last,
                  \* "none" once the dispatcher has started the next task
    firstEvent    \* observer: type of the first event passed to handle_event ("none" before)

vars == <<lorawan, evPc, evEvent, evHeld, evResp, respPc, respArg, respHeld,
          foptsLeft, macLen, frmOk, rq2, evSlot, respSlot, rq3, cnt, arr, running,
          irqPending, radioPending, rngen, panicked, dropped, timeoutOwed,
          respDone, firstEvent>>

(* ------------------------------ values --------------------------------- *)
\* LorawanEvent; `held` records that radio_irq built the event while
\* lorawan_event had the device taken out of the cell
NewSessionRequest == [type |-> "NewSessionRequest", held |-> FALSE]
TimeoutFired == [type |-> "TimeoutFired", held |-> FALSE]
RadioEvent(h) == [type |-> "RadioEvent", held |-> h]
NoEvent == [type |-> "none", held |-> FALSE]

\* Result<LorawanResponse, LorawanError>
Resp(k, v) == [kind |-> k, val |-> v]
NoResp == Resp("none", 0)
MsValues == 1..MaxMs
PlainKinds == {"JoinSuccess", "ReadyToSend", "NoAck", "NoJoinAccept",
               "SessionExpired", "NoUpdate", "JoinRequestSending"}
ErrorKinds == {"ErrRadio", "ErrSession", "ErrNoSession"}
Responses == {Resp("TimeoutRequest", ms) : ms \in MsValues}
             \cup {Resp(k, 0) : k \in PlainKinds \cup ErrorKinds}
             \cup {Resp(k, f) : k \in {"DownlinkReceived", "UplinkSending"}, f \in 0..MaxFCnt}

\* kinds whose arm of lorawan_response only logs
LogOnlyKinds == {"ReadyToSend", "NoAck", "NoUpdate", "UplinkSending",
                 "JoinRequestSending"} \cup ErrorKinds

(* --------------------------- initial state ----------------------------- *)
\* a start in which the spawned NewSessionRequest can be dispatched before the
\* LateResources are stored: the cell is still empty
init_CellEmpty ==
    /\ lorawan = "None"
    /\ evPc = "idle" /\ evEvent = NoEvent /\ evHeld = FALSE /\ evResp = NoResp
    /\ respPc = "idle" /\ respArg = NoResp /\ respHeld = FALSE
    /\ foptsLeft = 0 /\ macLen = 0 /\ frmOk = TRUE
    /\ rq2 = <<"lorawan_event">> /\ evSlot = NewSessionRequest /\ respSlot = NoResp
    /\ rq3 = <<>>
    /\ cnt = 0 /\ arr = 0 /\ running = FALSE /\ irqPending = FALSE
    /\ radioPending = FALSE
    /\ rngen = FALSE
    /\ panicked = "none"
    /\ dropped = FALSE /\ timeoutOwed = FALSE
    /\ respDone = "none" /\ firstEvent = "none"

\* the state when init returns: LateResources stored, one NewSessionRequest spawned
init ==
    /\ lorawan = "Some"
    /\ evPc = "idle" /\ evEvent = NoEvent /\ evHeld = FALSE /\ evResp = NoResp
    /\ respPc = "idle" /\ respArg = NoResp /\ respHeld = FALSE
    /\ foptsLeft = 0 /\ macLen = 0 /\ frmOk = TRUE
    /\ rq2 = <<"lorawan_event">> /\ evSlot = NewSessionRequest /\ respSlot = NoResp
    /\ rq3 = <<>>
    /\ cnt = 0 /\ arr = 0 /\ running = FALSE /\ irqPending = FALSE
    /\ radioPending = FALSE
    /\ rngen = FALSE
    /\ panicked = "none"
    /\ dropped = FALSE /\ timeoutOwed = FALSE
    /\ respDone = "none" /\ firstEvent = "none"

Init == init

(* ------------------------------ helpers -------------------------------- *)
evVars == <<evPc, evEvent, evHeld, evResp>>
respVars == <<respPc, respArg, respHeld, foptsLeft, macLen, frmOk>>
timerVars == <<cnt, arr, running, irqPending>>
irqVars == <<cnt, arr, running, irqPending, radioPending>>
obsVars == <<dropped, timeoutOwed, respDone, firstEvent>>

\* number of messages of `task` waiting in ready queue q
Pending(q, task) == Cardinality({i \in 1..Len(q) : q[i] = task})

\* spawn succeeds iff the task's free queue still has a message buffer; the
\* dispatcher returns the buffer when it dequeues the message, before the task runs
SpawnOk(q, task) == Pending(q, task) < Capacity

\* Take that copies the value out and leaves the cell filled
Take_Mut(cell) == [got |-> cell = "Some", cell |-> cell]

\* Option::take on the cell: the value moves out, the cell becomes None
Take(cell) == [got |-> cell = "Some", cell |-> "None"]

\* u16::try_from(ms): Ok for values that fit in 16 bits, Err otherwise
U16TryFrom(ms) == [ok |-> ms <= U16Max, val |-> IF ms <= U16Max THEN ms ELSE 0]

\* a spawn of set_timer that loses the message
SpawnSetTimer_Mut(q, ms) == q

\* ctx.spawn.set_timer(ms) with the Result discarded
SpawnSetTimer(q, ms) == IF Len(q) < Capacity THEN Append(q, ms) ELSE q

\* a dispatcher that starts a task while another priority-2 task is running
Prio2Idle_Mut == TRUE

\* no priority-2 task is between its entry and its return: the priority-2
\* dispatcher runs one task to completion before it dequeues the next
Prio2Idle == evPc = "idle" /\ respPc = "idle"

\* a priority-2 step may execute: nothing of priority 3 or 4 is pending
Prio2Runs == panicked = "none" /\ ~irqPending /\ ~radioPending /\ rq3 = <<>>

(* ------------------------ priority-2 dispatcher ------------------------ *)
\* a dispatcher that serves a queued lorawan_event ahead of older work, as if
\* lorawan_event had a priority of its own above lorawan_response
dispatch_lorawan_event_First ==
    /\ Prio2Runs /\ Prio2Idle
    /\ \E i \in 1..Len(rq2) :
          /\ rq2[i] = "lorawan_event"
          /\ rq2' = SubSeq(rq2, 1, i - 1) \o SubSeq(rq2, i + 1, Len(rq2))
    /\ evEvent' = evSlot /\ evSlot' = NoEvent
    /\ evPc' = "enable_clock"
    /\ respDone' = "none"
    /\ foptsLeft' = 0 /\ macLen' = 0 /\ frmOk' = TRUE
    /\ UNCHANGED <<lorawan, evHeld, evResp, respPc, respArg, respHeld, respSlot,
                   rq3, irqVars, rngen, panicked, dropped, timeoutOwed, firstEvent>>

\* the dispatcher dequeues a lorawan_event message, returns its buffer to the
\* free queue and calls the task
dispatch_lorawan_event ==
    /\ Prio2Runs /\ Prio2Idle
    /\ rq2 # <<>> /\ Head(rq2) = "lorawan_event"
    /\ rq2' = Tail(rq2)
    /\ evEvent' = evSlot /\ evSlot' = NoEvent
    /\ evPc' = "enable_clock"
    /\ respDone' = "none"
    /\ foptsLeft' = 0 /\ macLen' = 0 /\ frmOk' = TRUE
    /\ UNCHANGED <<lorawan, evHeld, evResp, respPc, respArg, respHeld, respSlot,
                   rq3, irqVars, rngen, panicked, dropped, timeoutOwed, firstEvent>>

\* the same for a lorawan_response message
dispatch_lorawan_response ==
    /\ Prio2Runs /\ Prio2Idle
    /\ rq2 # <<>> /\ Head(rq2) = "lorawan_response"
    /\ rq2' = Tail(rq2)
    /\ respArg' = respSlot /\ respSlot' = NoResp
    /\ respPc' = "match"
    /\ respDone' = "none"
    /\ foptsLeft' = 0 /\ macLen' = 0 /\ frmOk' = TRUE
    /\ UNCHANGED <<lorawan, evVars, respHeld, evSlot, rq3, irqVars, rngen,
                   panicked, dropped, timeoutOwed, firstEvent>>

(* ---------------------------- lorawan_event ---------------------------- *)
\* lorawan_event without the call of Rng::enable_clock
lorawan_event_enable_clock_Skip ==
    /\ Prio2Runs /\ evPc = "enable_clock"
    /\ evPc' = "take"
    /\ UNCHANGED <<lorawan, evEvent, evHeld, evResp, respVars, rq2, evSlot,
                   respSlot, rq3, irqVars, rngen, panicked, obsVars>>

\* Rng::enable_clock(ctx.resources.rcc)
lorawan_event_enable_clock ==
    /\ Prio2Runs /\ evPc = "enable_clock"
    /\ rngen' = TRUE
    /\ evPc' = "take"
    /\ UNCHANGED <<lorawan, evEvent, evHeld, evResp, respVars, rq2, evSlot,
                   respSlot, rq3, irqVars, panicked, obsVars>>

\* lorawan_event with ctx.resources.lorawan.take().unwrap() in place of the if-let
lorawan_event_take_Mut ==
    /\ Prio2Runs /\ evPc = "take"
    /\ lorawan' = Take(lorawan).cell
    /\ IF Take(lorawan).got
       THEN /\ evHeld' = TRUE /\ evPc' = "handle_event"
            /\ UNCHANGED <<evEvent, panicked>>
       ELSE /\ panicked' = "lorawan_event"
            /\ UNCHANGED <<evPc, evEvent, evHeld>>
    /\ UNCHANGED <<evResp, respVars, rq2, evSlot, respSlot, rq3, irqVars,
                   rngen, obsVars>>

\* if let Some(lorawan) = ctx.resources.lorawan.take() { .. } (else: return)
lorawan_event_take ==
    /\ Prio2Runs /\ evPc = "take"
    /\ lorawan' = Take(lorawan).cell
    /\ IF Take(lorawan).got
       THEN /\ evHeld' = TRUE /\ evPc' = "handle_event"
            /\ UNCHANGED <<evEvent, dropped>>
       ELSE /\ evPc' = "idle" /\ evEvent' = NoEvent /\ dropped' = TRUE
            /\ UNCHANGED evHeld
    /\ UNCHANGED <<evResp, respVars, rq2, evSlot, respSlot, rq3, irqVars,
                   rngen, panicked, timeoutOwed, respDone, firstEvent>>

\* let (new_state, response) = lorawan.handle_event(event): the transition is
\* an external collaborator, any Result may come back
handle_event ==
    /\ Prio2Runs /\ evPc = "handle_event"
    /\ \E r \in Responses : evResp' = r
    /\ timeoutOwed' = IF evEvent.type = "TimeoutFired" THEN FALSE ELSE timeoutOwed
    /\ firstEvent' = IF firstEvent = "none" THEN evEvent.type ELSE firstEvent
    /\ evPc' = "spawn"
    /\ UNCHANGED <<lorawan, evEvent, evHeld, respVars, rq2, evSlot, respSlot,
                   rq3, irqVars, rngen, panicked, dropped, respDone>>

\* ctx.spawn.lorawan_response(response).unwrap()
lorawan_event_spawn ==
    /\ Prio2Runs /\ evPc = "spawn"
    /\ IF SpawnOk(rq2, "lorawan_response")
       THEN /\ rq2' = Append(rq2, "lorawan_response")
            /\ respSlot' = evResp
            /\ evPc' = "replace"
            /\ UNCHANGED panicked
       ELSE /\ panicked' = "lorawan_event"
            /\ UNCHANGED <<rq2, respSlot, evPc>>
    /\ UNCHANGED <<lorawan, evEvent, evHeld, evResp, respVars, evSlot, rq3,
                   irqVars, rngen, obsVars>>

\* ctx.resources.lorawan.replace(new_state), then return
lorawan_event_replace ==
    /\ Prio2Runs /\ evPc = "replace"
    /\ lorawan' = "Some" /\ evHeld' = FALSE
    /\ evPc' = "idle" /\ evEvent' = NoEvent /\ evResp' = NoResp
    /\ UNCHANGED <<respVars, rq2, evSlot, respSlot, rq3, irqVars, rngen,
                   panicked, obsVars>>

(* --------------------------- lorawan_response -------------------------- *)
\* LorawanResponse::TimeoutRequest(ms): ctx.spawn.set_timer(u16::try_from(ms).unwrap());
\* set_timer (priority 3) preempts before lorawan_response returns
lorawan_response_TimeoutRequest ==
    /\ Prio2Runs /\ respPc = "match" /\ respArg.kind = "TimeoutRequest"
    /\ IF U16TryFrom(respArg.val).ok
       THEN /\ rq3' = SpawnSetTimer(rq3, U16TryFrom(respArg.val).val)
            /\ respPc' = "return"
            /\ UNCHANGED panicked
       ELSE /\ panicked' = "lorawan_response"
            /\ UNCHANGED <<rq3, respPc>>
    /\ UNCHANGED <<lorawan, evVars, respArg, respHeld, foptsLeft, macLen, frmOk,
                   rq2, evSlot, respSlot, irqVars, rngen, obsVars>>

\* the end of the TimeoutRequest arm, reached once set_timer has run
lorawan_response_return ==
    /\ Prio2Runs /\ respPc = "return"
    /\ respPc' = "idle" /\ respArg' = NoResp /\ respDone' = respArg.kind
    /\ UNCHANGED <<lorawan, evVars, respHeld, foptsLeft, macLen, frmOk, rq2,
                   evSlot, respSlot, rq3, irqVars, rngen, panicked, dropped,
                   timeoutOwed, firstEvent>>

\* LorawanResponse::JoinSuccess: if let Some(lorawan) = ctx.resources.lorawan.take()
lorawan_response_JoinSuccess_take ==
    /\ Prio2Runs /\ respPc = "match" /\ respArg.kind = "JoinSuccess"
    /\ lorawan' = Take(lorawan).cell
    /\ IF Take(lorawan).got
       THEN /\ respHeld' = TRUE /\ respPc' = "js_restore"
            /\ UNCHANGED <<respArg, respDone>>
       ELSE /\ respPc' = "idle" /\ respArg' = NoResp /\ respDone' = respArg.kind
            /\ UNCHANGED respHeld
    /\ UNCHANGED <<evVars, foptsLeft, macLen, frmOk, rq2, evSlot, respSlot, rq3,
                   irqVars, rngen, panicked, dropped, timeoutOwed, firstEvent>>

\* *ctx.resources.lorawan = Some(lorawan)
lorawan_response_JoinSuccess_restore ==
    /\ Prio2Runs /\ respPc = "js_restore"
    /\ lorawan' = "Some" /\ respHeld' = FALSE
    /\ respPc' = "idle" /\ respArg' = NoResp /\ respDone' = respArg.kind
    /\ UNCHANGED <<evVars, foptsLeft, macLen, frmOk, rq2, evSlot, respSlot, rq3,
                   irqVars, rngen, panicked, dropped, timeoutOwed, firstEvent>>

\* LorawanResponse::DownlinkReceived: if let Some(mut lorawan) = ctx.resources.lorawan.take()
lorawan_response_DownlinkReceived_take ==
    /\ Prio2Runs /\ respPc = "match" /\ respArg.kind = "DownlinkReceived"
    /\ lorawan' = Take(lorawan).cell
    /\ IF Take(lorawan).got
       THEN /\ respHeld' = TRUE /\ respPc' = "dl_downlink"
            /\ UNCHANGED <<respArg, respDone>>
       ELSE /\ respPc' = "idle" /\ respArg' = NoResp /\ respDone' = respArg.kind
            /\ UNCHANGED respHeld
    /\ UNCHANGED <<evVars, foptsLeft, macLen, frmOk, rq2, evSlot, respSlot, rq3,
                   irqVars, rngen, panicked, dropped, timeoutOwed, firstEvent>>

\* a DownlinkReceived arm that returns on a malformed payload before the restore
take_data_downlink_Mut ==
    /\ Prio2Runs /\ respPc = "dl_downlink"
    /\ \E pendingDownlink \in BOOLEAN, payloadOk \in BOOLEAN, n \in 0..MaxFOpts :
          IF pendingDownlink
          THEN IF payloadOk
               THEN /\ foptsLeft' = n /\ macLen' = 0 /\ frmOk' = payloadOk
                    /\ respPc' = "dl_fopts"
               ELSE /\ respPc' = "idle" /\ frmOk' = payloadOk
                    /\ UNCHANGED <<foptsLeft, macLen>>
          ELSE /\ respPc' = "dl_restore" /\ UNCHANGED <<foptsLeft, macLen, frmOk>>
    /\ UNCHANGED <<lorawan, evVars, respArg, respHeld, rq2, evSlot, respSlot,
                   rq3, irqVars, rngen, panicked, obsVars>>

\* if let Some(downlink) = lorawan.take_data_downlink(): the header options are
\* read, frm_payload() is decoded (neither arm of the if-let does anything) and
\* mac_commands_len starts at 0
take_data_downlink ==
    /\ Prio2Runs /\ respPc = "dl_downlink"
    /\ \E pendingDownlink \in BOOLEAN, payloadOk \in BOOLEAN, n \in 0..MaxFOpts :
          IF pendingDownlink
          THEN /\ foptsLeft' = n /\ macLen' = 0 /\ frmOk' = payloadOk
               /\ respPc' = "dl_fopts"
          ELSE /\ respPc' = "dl_restore" /\ UNCHANGED <<foptsLeft, macLen, frmOk>>
    /\ UNCHANGED <<lorawan, evVars, respArg, respHeld, rq2, evSlot, respSlot,
                   rq3, irqVars, rngen, panicked, obsVars>>

\* for mac_command in fopts { .. mac_commands_len += 1 }
lorawan_response_fopts ==
    /\ Prio2Runs /\ respPc = "dl_fopts"
    /\ IF foptsLeft > 0
       THEN /\ foptsLeft' = foptsLeft - 1 /\ macLen' = macLen + 1
            /\ UNCHANGED respPc
       ELSE /\ respPc' = "dl_restore" /\ UNCHANGED <<foptsLeft, macLen>>
    /\ UNCHANGED <<lorawan, evVars, respArg, respHeld, frmOk, rq2, evSlot,
                   respSlot, rq3, irqVars, rngen, panicked, obsVars>>

\* *ctx.resources.lorawan = Some(lorawan)
lorawan_response_DownlinkReceived_restore ==
    /\ Prio2Runs /\ respPc = "dl_restore"
    /\ lorawan' = "Some" /\ respHeld' = FALSE
    /\ respPc' = "idle" /\ respArg' = NoResp /\ respDone' = respArg.kind
    /\ UNCHANGED <<evVars, foptsLeft, macLen, frmOk, rq2, evSlot, respSlot, rq3,
                   irqVars, rngen, panicked, dropped, timeoutOwed, firstEvent>>

\* LorawanResponse::NoJoinAccept and ::SessionExpired:
\* ctx.spawn.lorawan_event(LorawanEvent::NewSessionRequest).unwrap()
lorawan_response_NewSession ==
    /\ Prio2Runs /\ respPc = "match"
    /\ respArg.kind \in {"NoJoinAccept", "SessionExpired"}
    /\ IF SpawnOk(rq2, "lorawan_event")
       THEN /\ rq2' = Append(rq2, "lorawan_event")
            /\ evSlot' = NewSessionRequest
            /\ respPc' = "idle" /\ respArg' = NoResp /\ respDone' = respArg.kind
            /\ UNCHANGED panicked
       ELSE /\ panicked' = "lorawan_response"
            /\ UNCHANGED <<rq2, evSlot, respPc, respArg, respDone>>
    /\ UNCHANGED <<lorawan, evVars, respHeld, foptsLeft, macLen, frmOk, respSlot,
                   rq3, irqVars, rngen, dropped, timeoutOwed, firstEvent>>

\* an Err(_) arm that retries by spawning a NewSessionRequest
lorawan_response_log_Retry ==
    /\ Prio2Runs /\ respPc = "match" /\ respArg.kind \in LogOnlyKinds
    /\ respPc' = "idle" /\ respArg' = NoResp /\ respDone' = respArg.kind
    /\ IF respArg.kind \in ErrorKinds /\ SpawnOk(rq2, "lorawan_event")
       THEN rq2' = Append(rq2, "lorawan_event") /\ evSlot' = NewSessionRequest
       ELSE UNCHANGED <<rq2, evSlot>>
    /\ UNCHANGED <<lorawan, evVars, respHeld, foptsLeft, macLen, frmOk,
                   respSlot, rq3, irqVars, rngen, panicked, dropped,
                   timeoutOwed, firstEvent>>

\* a log-only arm that takes the device out of the cell and drops it
lorawan_response_log_Take ==
    /\ Prio2Runs /\ respPc = "match" /\ respArg.kind \in LogOnlyKinds
    /\ lorawan' = Take(lorawan).cell
    /\ respPc' = "idle" /\ respArg' = NoResp /\ respDone' = respArg.kind
    /\ UNCHANGED <<evVars, respHeld, foptsLeft, macLen, frmOk, rq2,
                   evSlot, respSlot, rq3, irqVars, rngen, panicked, dropped,
                   timeoutOwed, firstEvent>>

\* ReadyToSend, NoAck, NoUpdate, UplinkSending, JoinRequestSending and Err(_): log only
lorawan_response_log ==
    /\ Prio2Runs /\ respPc = "match" /\ respArg.kind \in LogOnlyKinds
    /\ respPc' = "idle" /\ respArg' = NoResp /\ respDone' = respArg.kind
    /\ UNCHANGED <<lorawan, evVars, respHeld, foptsLeft, macLen, frmOk, rq2,
                   evSlot, respSlot, rq3, irqVars, rngen, panicked, dropped,
                   timeoutOwed, firstEvent>>

(* ------------------------------ LPTIM1 --------------------------------- *)
\* lptim.start(ms): CNT restarts from zero, single-shot, match after ms ticks
LptimStart(ms) == [cnt |-> 0, arr |-> ms, running |-> TRUE]

\* set_timer (priority 3), its body inside ctx.resources.lptim.lock
set_timer ==
    /\ panicked = "none" /\ ~irqPending /\ ~radioPending
    /\ rq3 # <<>>
    /\ rq3' = Tail(rq3)
    /\ IF cnt # 0
       THEN UNCHANGED <<cnt, arr, running>>
       ELSE /\ cnt' = LptimStart(Head(rq3)).cnt
            /\ arr' = LptimStart(Head(rq3)).arr
            /\ running' = LptimStart(Head(rq3)).running
    /\ UNCHANGED <<lorawan, evVars, respVars, rq2, evSlot, respSlot, irqPending,
                   radioPending, rngen, panicked, obsVars>>

\* one period of the LSI/32 clock (1 ms): the counter advances; reaching the
\* programmed count raises the compare-match flag, ends the single-shot run
\* and leaves the counter at zero
lptim_tick ==
    /\ panicked = "none" /\ ~irqPending
    /\ running
    /\ IF cnt + 1 >= arr
       THEN /\ cnt' = 0 /\ running' = FALSE /\ irqPending' = TRUE
       ELSE /\ cnt' = cnt + 1 /\ UNCHANGED <<running, irqPending>>
    /\ UNCHANGED <<lorawan, evVars, respVars, rq2, evSlot, respSlot, rq3, arr,
                   radioPending, rngen, panicked, obsVars>>

(* ------------------------- interrupt handlers -------------------------- *)
\* timer_irq (priority 4): set_icr(CMPM); spawn lorawan_event(TimeoutFired).unwrap()
timer_irq ==
    /\ panicked = "none" /\ irqPending
    /\ irqPending' = FALSE
    /\ timeoutOwed' = TRUE
    /\ IF SpawnOk(rq2, "lorawan_event")
       THEN /\ rq2' = Append(rq2, "lorawan_event")
            /\ evSlot' = TimeoutFired
            /\ UNCHANGED panicked
       ELSE /\ panicked' = "timer_irq"
            /\ UNCHANGED <<rq2, evSlot>>
    /\ UNCHANGED <<lorawan, evVars, respVars, respSlot, rq3, cnt, arr, running,
                   radioPending, rngen, dropped, respDone, firstEvent>>

\* the radio raises RADIO_IRQ_BUSY
radio_raise ==
    /\ panicked = "none" /\ ~radioPending
    /\ radioPending' = TRUE
    /\ UNCHANGED <<lorawan, evVars, respVars, rq2, evSlot, respSlot, rq3,
                   timerVars, rngen, panicked, obsVars>>

\* a radio_irq that discards its event while lorawan_event holds the device
radio_irq_Mut ==
    /\ panicked = "none" /\ radioPending
    /\ radioPending' = FALSE
    /\ IF SpawnOk(rq2, "lorawan_event") /\ ~evHeld
       THEN /\ rq2' = Append(rq2, "lorawan_event")
            /\ evSlot' = RadioEvent(evHeld)
       ELSE UNCHANGED <<rq2, evSlot>>
    /\ UNCHANGED <<lorawan, evVars, respVars, respSlot, rq3, timerVars, rngen,
                   panicked, obsVars>>

\* radio_irq (priority 4): read and clear the radio's interrupt status, spawn
\* lorawan_event(RadioEvent(PhyEvent(Irq(..)))) with the Result discarded
radio_irq ==
    /\ panicked = "none" /\ radioPending
    /\ radioPending' = FALSE
    /\ IF SpawnOk(rq2, "lorawan_event")
       THEN /\ rq2' = Append(rq2, "lorawan_event")
            /\ evSlot' = RadioEvent(evHeld)
       ELSE UNCHANGED <<rq2, evSlot>>
    /\ UNCHANGED <<lorawan, evVars, respVars, respSlot, rq3, timerVars, rngen,
                   panicked, obsVars>>

(* --------------------------- specification ----------------------------- *)
Next ==
    \/ dispatch_lorawan_event
    \/ dispatch_lorawan_response
    \/ lorawan_event_enable_clock
    \/ lorawan_event_take
    \/ handle_event
    \/ lorawan_event_spawn
    \/ lorawan_event_replace
    \/ lorawan_response_TimeoutRequest
    \/ lorawan_response_return
    \/ lorawan_response_JoinSuccess_take
    \/ lorawan_response_JoinSuccess_restore
    \/ lorawan_response_DownlinkReceived_take
    \/ take_data_downlink
    \/ lorawan_response_fopts
    \/ lorawan_response_DownlinkReceived_restore
    \/ lorawan_response_NewSession
    \/ lorawan_response_log
    \/ set_timer
    \/ lptim_tick
    \/ timer_irq
    \/ radio_raise
    \/ radio_irq

Spec == Init /\ [][Next]_vars

\* the same program with the cell in either state when the first event is
\* dispatched: the harness for lorawan_event's absent-state branch
InitAnyCell ==
    /\ lorawan \in {"Some", "None"}
    /\ evPc = "idle" /\ evEvent = NoEvent /\ evHeld = FALSE /\ evResp = NoResp
    /\ respPc = "idle" /\ respArg = NoResp /\ respHeld = FALSE
    /\ foptsLeft = 0 /\ macLen = 0 /\ frmOk = TRUE
    /\ rq2 = <<"lorawan_event">> /\ evSlot = NewSessionRequest /\ respSlot = NoResp
    /\ rq3 = <<>>
    /\ cnt = 0 /\ arr = 0 /\ running = FALSE /\ irqPending = FALSE
    /\ radioPending = FALSE
    /\ rngen = FALSE
    /\ panicked = "none"
    /\ dropped = FALSE /\ timeoutOwed = FALSE
    /\ respDone = "none" /\ firstEvent = "none"

SpecAnyCell == InitAnyCell /\ [][Next]_vars

(* ------------------------------- claims -------------------------------- *)
\* places that own the protocol state: the cell and the two tasks' local bindings
Holders == (IF lorawan = "Some" THEN 1 ELSE 0) + (IF evHeld THEN 1 ELSE 0)
           + (IF respHeld THEN 1 ELSE 0)

\* C1: the protocol state exists exactly once at every instant, and the cell
\* holds it when an invocation of lorawan_event starts and when it returns
C1_StatePresentAroundDispatch ==
    /\ [](Holders = 1)
    /\ [][(evPc = "idle" /\ evPc' # "idle") => (lorawan = "Some" /\ lorawan' = "Some")]_vars
    /\ [][(evPc # "idle" /\ evPc' = "idle") => lorawan' = "Some"]_vars

\* lorawan_event has returned with an error result after a radio interrupt
\* preempted it while it held the state, and the cell is filled again
C1_Witness ==
    /\ evPc = "idle" /\ lorawan = "Some"
    /\ Pending(rq2, "lorawan_response") = 1 /\ respSlot.kind \in ErrorKinds
    /\ Pending(rq2, "lorawan_event") = 1 /\ evSlot = RadioEvent(TRUE)

\* C2: lorawan_event and lorawan_response are never both between entry and
\* return, never both own the state, and an invocation starts only while the
\* cell is filled and no task owns the state
C2_OneHolderAtATime ==
    /\ [](~(evPc # "idle" /\ respPc # "idle"))
    /\ [](~(evHeld /\ respHeld))
    /\ [][((evPc = "idle" /\ respPc = "idle") /\ ~(evPc' = "idle" /\ respPc' = "idle"))
            => (lorawan = "Some" /\ ~evHeld /\ ~respHeld)]_vars

\* lorawan_event owns the state, timer_irq has preempted it and queued
\* TimeoutFired, and the radio interrupt is pending as well
C2_Witness ==
    /\ evHeld /\ respPc = "idle"
    /\ Pending(rq2, "lorawan_event") = 1 /\ evSlot = TimeoutFired
    /\ radioPending

\* C3: a set_timer that runs while a countdown is in progress leaves the
\* timer's count, programmed count and run state unchanged
C3_SecondArmRejected ==
    [][(rq3 # <<>> /\ rq3' = <<>> /\ running)
         => (cnt' = cnt /\ arr' = arr /\ running' = running)]_vars

\* C4: the NoJoinAccept / SessionExpired arm of lorawan_response always ends
\* with exactly one more NewSessionRequest queued for lorawan_event
C4_ExactlyOneNewSession ==
    [][(respPc = "match" /\ respArg.kind \in {"NoJoinAccept", "SessionExpired"}
          /\ (respPc' # "match" \/ panicked' = "lorawan_response"))
         => (/\ panicked' = "none"
             /\ Pending(rq2', "lorawan_event") = Pending(rq2, "lorawan_event") + 1
             /\ evSlot' = NewSessionRequest)]_vars

\* C5: the TimeoutRequest(ms) arm queues exactly one set_timer(ms) onto an empty
\* set_timer queue, ms fits in 16 bits so the conversion does not panic, and
\* the queue changes in no other way than by set_timer consuming that request
C5_OneArmRequestInRange ==
    /\ [][(respPc = "match" /\ respArg.kind = "TimeoutRequest"
             /\ (respPc' # "match" \/ panicked' = "lorawan_response"))
            => (/\ rq3 = <<>> /\ rq3' = <<respArg.val>>
                /\ respArg.val \in 0..U16Max
                /\ panicked' = "none")]_vars
    /\ [][rq3' # rq3
            => \/ (respPc = "match" /\ respArg.kind = "TimeoutRequest")
               \/ (Len(rq3) = 1 /\ rq3' = <<>>
                     /\ (cnt = 0 => (running' /\ arr' = Head(rq3))))]_vars

\* the TimeoutRequest arm has spawned set_timer(ms) and the request is queued
C5_Witness == respPc = "return" /\ rq3 = <<respArg.val>>

\* C6: the compare match comes exactly arr ticks after the start, and timer_irq
\* then queues exactly one TimeoutFired and leaves the timer idle at count zero
C6_TimerRoundTrip ==
    /\ [][(~irqPending /\ irqPending') => (cnt + 1 = arr /\ cnt' = 0 /\ ~running')]_vars
    /\ [][(irqPending /\ ~irqPending')
            => (/\ panicked' = "none"
                /\ Pending(rq2', "lorawan_event") = Pending(rq2, "lorawan_event") + 1
                /\ evSlot' = TimeoutFired
                /\ cnt' = 0 /\ ~running')]_vars

\* C7: once the timer armed by a TimeoutRequest has expired and timer_irq has
\* run, TimeoutFired is queued for lorawan_event or is the event of the running
\* invocation on its way to handle_event with the state available
C7_TimeoutFiredDispatched ==
    timeoutOwed =>
        \/ (Pending(rq2, "lorawan_event") = 1 /\ evSlot = TimeoutFired)
        \/ (evPc \in {"enable_clock", "take"} /\ evEvent = TimeoutFired
              /\ lorawan = "Some")
        \/ (evPc = "handle_event" /\ evEvent = TimeoutFired /\ evHeld)

\* C8 as stated: an event built by radio_irq while lorawan_event held the
\* state is neither queued nor passed to the transition
C8_RadioEventDropped ==
    /\ (Pending(rq2, "lorawan_event") = 1 => ~evSlot.held)
    /\ ~evEvent.held

\* C8 as amended: radio_irq running while lorawan_event holds the state queues
\* its event when no event is pending and discards it without panicking when
\* one is; at most one event is pending; a dispatched event always finds the
\* cell filled, so it reaches the transition; the holder is never stuck and
\* nothing else owns the state meanwhile
C8_RadioEventQueuedNotDropped ==
    /\ [][(radioPending /\ ~radioPending' /\ evHeld /\ Pending(rq2, "lorawan_event") = 0)
            => (rq2' = Append(rq2, "lorawan_event") /\ evSlot' = RadioEvent(TRUE))]_vars
    /\ [][(radioPending /\ ~radioPending' /\ Pending(rq2, "lorawan_event") = 1)
            => (rq2' = rq2 /\ evSlot' = evSlot /\ panicked' = "none")]_vars
    /\ [](Pending(rq2, "lorawan_event") <= 1)
    /\ [](evPc = "take" => lorawan = "Some")
    /\ [](evHeld => (lorawan = "None" /\ ~respHeld /\ respPc = "idle"))
    /\ []((evHeld /\ Prio2Runs)
            => ENABLED (handle_event \/ lorawan_event_spawn \/ lorawan_event_replace))

\* the transition is about to be called with a RadioEvent that radio_irq
\* built while an earlier invocation of lorawan_event held the state
C8_Witness == evPc = "handle_event" /\ evHeld /\ evEvent = RadioEvent(TRUE)

\* C9: whenever the DownlinkReceived arm returns, the cell is filled and the
\* task no longer owns the state; while the arm runs it owns the state, and it
\* reaches the restore only after the option loop has visited every option
C9_DownlinkRestoresState ==
    /\ [][(respArg.kind = "DownlinkReceived" /\ respPc # "idle" /\ respPc' = "idle")
            => (lorawan' = "Some" /\ ~respHeld')]_vars
    /\ [](respPc \in {"dl_downlink", "dl_fopts", "dl_restore"}
            => (respHeld /\ lorawan = "None"))
    /\ [](respPc = "dl_restore" => foptsLeft = 0)

\* the DownlinkReceived arm has returned after a downlink with a malformed
\* payload and MaxFOpts options, and the cell is filled
C9_Witness ==
    /\ respPc = "idle" /\ ~respHeld /\ lorawan = "Some"
    /\ macLen = MaxFOpts /\ ~frmOk

\* C10: lorawan_event finding the cell empty returns at once: no transition,
\* no response spawned, the cell still empty, timer and set_timer queue
\* untouched, no panic
C10_AbsentStateDropsEvent ==
    [][(evPc = "take" /\ lorawan = "None"
          /\ (evPc' # "take" \/ panicked' = "lorawan_event"))
         => (/\ evPc' = "idle" /\ ~evHeld' /\ lorawan' = "None"
             /\ rq2' = rq2 /\ respSlot' = respSlot /\ rq3' = rq3
             /\ cnt' = cnt /\ arr' = arr /\ running' = running
             /\ irqPending' = irqPending
             /\ timeoutOwed' = timeoutOwed
             /\ panicked' = "none")]_vars

\* an event has been dropped and the system runs on with the cell empty
C10_Witness == dropped /\ evPc = "idle" /\ lorawan = "None" /\ panicked = "none"

\* C11: at every spawn site a spawn onto a full queue panics: timer_irq and
\* radio_irq end in the panicked state, and the spawning statement of
\* lorawan_event and of lorawan_response is never passed
C11_OverflowIsFatal ==
    /\ [][(irqPending /\ ~irqPending' /\ ~SpawnOk(rq2, "lorawan_event"))
            => panicked' # "none"]_vars
    /\ [][(radioPending /\ ~radioPending' /\ ~SpawnOk(rq2, "lorawan_event"))
            => panicked' # "none"]_vars
    /\ [][(evPc = "spawn" /\ ~SpawnOk(rq2, "lorawan_response")) => evPc' = "spawn"]_vars
    /\ [][(respPc = "match" /\ respArg.kind \in {"NoJoinAccept", "SessionExpired"}
             /\ ~SpawnOk(rq2, "lorawan_event")) => respPc' = "match"]_vars
    /\ [][(respPc = "match" /\ respArg.kind = "TimeoutRequest" /\ Len(rq3) >= Capacity)
            => respPc' = "match"]_vars

\* C12: every event a producer builds is queued for lorawan_event (timer_irq,
\* radio_irq, the NoJoinAccept / SessionExpired arm), a queued event leaves the
\* queue only by being handed to one invocation of lorawan_event, and that
\* invocation finds the cell filled and passes the event to the transition
C12_EventsConsumedOnce ==
    /\ [][(irqPending /\ ~irqPending')
            => (rq2' = Append(rq2, "lorawan_event") /\ evSlot' = TimeoutFired)]_vars
    /\ [][(radioPending /\ ~radioPending')
            => (rq2' = Append(rq2, "lorawan_event") /\ evSlot'.type = "RadioEvent")]_vars
    /\ [][(respPc = "match" /\ respArg.kind \in {"NoJoinAccept", "SessionExpired"}
             /\ (respPc' # "match" \/ panicked' = "lorawan_response"))
            => (rq2' = Append(rq2, "lorawan_event") /\ evSlot' = NewSessionRequest)]_vars
    /\ [][(evSlot # NoEvent /\ evSlot' # evSlot)
            => (evSlot' = NoEvent /\ evEvent' = evSlot /\ evPc' = "enable_clock")]_vars
    /\ []((Pending(rq2, "lorawan_event") = 1) <=> (evSlot # NoEvent))
    /\ [](evPc = "take" => lorawan = "Some")

\* C13: the Err(_) arms of lorawan_response return without queueing an event,
\* without a set_timer request, and with the cell, the timer and the panic
\* state as they were
C13_ErrorsOnlyLogged ==
    [][(respPc = "match" /\ respArg.kind \in ErrorKinds
          /\ (respPc' # "match" \/ panicked' = "lorawan_response"))
         => (/\ respPc' = "idle"
             /\ rq2' = rq2 /\ evSlot' = evSlot /\ rq3' = rq3
             /\ lorawan = "Some" /\ lorawan' = "Some" /\ ~respHeld'
             /\ cnt' = cnt /\ arr' = arr /\ running' = running
             /\ irqPending' = irqPending
             /\ panicked' = "none")]_vars

\* an error result has been handled and nothing is queued or armed afterwards
C13_Witness ==
    /\ respDone \in ErrorKinds /\ respPc = "idle"
    /\ rq2 = <<>> /\ rq3 = <<>> /\ lorawan = "Some" /\ ~running /\ ~irqPending

\* C14: a priority-2 invocation that starts is the oldest entry of the ready
\* queue and receives the message queued for it; the ready queue changes only
\* by serving its front or by a spawn to its back; the event passed to the
\* transition is the one the invocation received
C14_Prio2Fifo ==
    /\ [][(evPc = "idle" /\ evPc' # "idle")
            => (/\ rq2 # <<>> /\ Head(rq2) = "lorawan_event" /\ rq2' = Tail(rq2)
                /\ evEvent' = evSlot)]_vars
    /\ [][(respPc = "idle" /\ respPc' # "idle")
            => (/\ rq2 # <<>> /\ Head(rq2) = "lorawan_response" /\ rq2' = Tail(rq2)
                /\ respArg' = respSlot)]_vars
    /\ [][rq2' # rq2
            => \/ (rq2 # <<>> /\ rq2' = Tail(rq2))
               \/ \E t \in {"lorawan_event", "lorawan_response"} : rq2' = Append(rq2, t)]_vars
    /\ [][(evPc \in {"enable_clock", "take", "handle_event"} /\ evPc' # "idle")
            => evEvent' = evEvent]_vars

\* an event queued by radio_irq during an invocation of lorawan_event, before
\* that invocation spawned its response, has been started first: the response
\* is still waiting behind it
C14_Witness ==
    /\ evPc = "enable_clock" /\ evEvent = RadioEvent(TRUE)
    /\ rq2 = <<"lorawan_response">>

\* C15 as stated: while lorawan_response handles anything but DownlinkReceived
\* the cell stays filled
C15_OnlyDownlinkTakes ==
    (respPc # "idle" /\ respArg.kind # "DownlinkReceived")
        => (lorawan = "Some" /\ ~respHeld)

\* C15 as amended: the cell is emptied by lorawan_response only in the
\* DownlinkReceived and JoinSuccess arms; the JoinSuccess arm puts the state
\* back in its next statement; in every other arm the cell stays filled, and
\* it is filled whenever no priority-2 task is running
C15_OnlyDownlinkAndJoinTake ==
    /\ []((respPc # "idle" /\ respArg.kind \notin {"DownlinkReceived", "JoinSuccess"})
            => (lorawan = "Some" /\ ~respHeld))
    /\ [](respHeld => (respPc # "idle"
                         /\ respArg.kind \in {"DownlinkReceived", "JoinSuccess"}))
    /\ [][(respPc = "js_restore" /\ respPc' # "js_restore")
            => (respPc' = "idle" /\ lorawan' = "Some" /\ ~respHeld')]_vars
    /\ []((respPc = "idle" /\ evPc = "idle") => lorawan = "Some")

\* the JoinSuccess arm has taken the state: the cell is empty
C15_Witness ==
    /\ respPc = "js_restore" /\ respArg.kind = "JoinSuccess"
    /\ respHeld /\ lorawan = "None"

\* C16: until the first event has been passed to the transition the timer is
\* idle, nothing has been dropped, the state is in the cell or with the running
\* lorawan_event, and the event waiting or being dispatched is the
\* NewSessionRequest of init; the first event the transition receives is that
\* NewSessionRequest, and no event is ever dropped for an empty cell
C16_StartUp ==
    /\ [](firstEvent \in {"none", "NewSessionRequest"})
    /\ [](firstEvent = "none"
            => (/\ ~running /\ cnt = 0 /\ ~irqPending /\ rq3 = <<>>
                /\ (lorawan = "Some" \/ evHeld)
                /\ panicked = "none"))
    /\ []((firstEvent = "none" /\ evPc = "idle")
            => (rq2 = <<"lorawan_event">> /\ evSlot = NewSessionRequest
                  /\ lorawan = "Some"))
    /\ []((firstEvent = "none" /\ evPc # "idle") => evEvent = NewSessionRequest)
    /\ [](~dropped)

\* the NewSessionRequest of init has just been passed to the transition, with
\* the timer still idle
C16_Witness ==
    /\ firstEvent = "NewSessionRequest"
    /\ evPc = "spawn" /\ evEvent = NewSessionRequest /\ evHeld
    /\ rq2 = <<>> /\ ~running /\ respDone = "none" /\ ~timeoutOwed

\* C17: an invocation of lorawan_event reaches the take, and so the transition,
\* only through its Rng::enable_clock statement, which leaves the RNG clock
\* enabled; the clock is enabled whenever the transition is called
C17_ClockBeforeTransition ==
    /\ [](evPc \in {"take", "handle_event", "spawn", "replace"} => rngen)
    /\ [][(evPc # "take" /\ evPc' = "take") => (evPc = "enable_clock" /\ rngen')]_vars
    /\ [][(evPc # "handle_event" /\ evPc' = "handle_event") => evPc = "take"]_vars

\* the first call of the transition is about to be made: the clock, off when
\* init returned, has been enabled by this invocation
C17_Witness == evPc = "handle_event" /\ firstEvent = "none" /\ rngen

\* C18: whenever lorawan_event is at its spawn of lorawan_response, no earlier
\* response is waiting in lorawan_response's queue, and that unwrap never panics
C18_ResponseSpawnSucceeds ==
    /\ (evPc = "spawn" => SpawnOk(rq2, "lorawan_response"))
    /\ panicked # "lorawan_event"

\* C19: whenever the timer interrupt is pending, lorawan_event's queue has a
\* free buffer for TimeoutFired, and the unwrap in timer_irq never panics
C19_TimeoutSpawnSucceeds ==
    /\ (irqPending => SpawnOk(rq2, "lorawan_event"))
    /\ panicked # "timer_irq"

====
